---- MODULE Spec2Model ----
(***************************************************************************)
(* Model of master_defect_system.py: a three-stage batch job.              *)
(*   setup_stale_database  fetches the catalog and rebuilds the products   *)
(*                         table, overwriting the price of product 1;      *)
(*   run_integrity_scan    re-queries the first five stored rows and       *)
(*                         collects price mismatches;                      *)
(*   log_defects_to_jira   posts one issue per collected mismatch.         *)
(* The remote catalog, the per-id endpoint and the tracker are the         *)
(* environment: every response they can give is a nondeterministic input.  *)
(* Prices are kept in hundredths together with their JSON / SQLite type.   *)
(***************************************************************************)
EXTENDS Integers, Sequences, FiniteSets, TLC

VARIABLES
    entry,       \* "main": the script is run; "scan": run_integrity_scan is called directly
    JIRA_TOKEN,  \* TRUE iff the JIRA_TOKEN environment variable is set
    pc,          \* position of the single control flow
    stage,       \* the function that is (or was last) executing
    exitStatus,  \* -1 while running, otherwise the process exit status
    raised,      \* the exception that ended the process ("" if none)
    dbFile,      \* TRUE iff the file DB_FILE exists
    hasTable,    \* TRUE iff the file holds a products table
    rows,        \* committed rows of the products table
    txn,         \* rows inserted by the open connection and not yet committed
    fetched,     \* what the catalog list GET gave
    products,    \* setup_stale_database: the local `products`
    i,           \* setup_stale_database: index of the next item of the for loop
    local_data,  \* run_integrity_scan: the result of fetchall()
    j,           \* run_integrity_scan: index of the next row of the for loop
    defects,     \* the defect list (run_integrity_scan's `defects`, main's `found_defects`)
    k,           \* log_defects_to_jira: index of the next defect of the for loop
    trace,       \* history: every HTTP request and table write in order, each GET with its response
    store0       \* history: the store as it was when the run started

vars == <<entry, JIRA_TOKEN, pc, stage, exitStatus, raised, dbFile, hasTable, rows, txn,
          fetched, products, i, local_data, j, defects, k, trace, store0>>

----------------------------------------------------------------------------
(* Bounds of the model *)

\* longest catalog list enumerated item by item
MaxLen == 2

\* length of the long catalog lists (longer than the scan limit)
MaxLong == 6

----------------------------------------------------------------------------
(* Values *)

\* pid == 1
Sentinel == 1

\* local_data[:5]
ScanLimit == 5

\* price = 999.99
InjectedPrice == [k |-> "real", v |-> 99999]

NoPrice == [k |-> "null", v |-> 0]

\* prices a JSON document can carry: the integer 10, the float 999.99, the string "10"
Prices == {[k |-> "int", v |-> 1000], [k |-> "real", v |-> 99999], [k |-> "str", v |-> 1000]}

NaturalPrice == [k |-> "int", v |-> 1000]

Ids == {1, 2}

Item(id, price) == [id |-> id, title |-> "t", price |-> price, missing |-> ""]

\* elements of the product list; `missing` names a key the element lacks
Items ==
    {Item(id, p) : id \in Ids, p \in Prices}
        \cup {[Item(2, NaturalPrice) EXCEPT !.missing = m] : m \in {"id", "title", "price"}}

ShortCatalogs == UNION {[1..n -> Items] : n \in 0..MaxLen}

\* a list longer than the scan limit, ids descending, in which the sentinel is the
\* fifth smallest id: for MaxLong = 6 the ids 2, 1, 0, -1, -2, -3 in that order
LongCatalogs ==
    {[n \in 1..MaxLong |-> Item(MaxLong - ScanLimit + Sentinel + 1 - n, NaturalPrice)]}

Catalogs == ShortCatalogs \cup LongCatalogs

\* what requests.get(INVENTORY_API_URL) and the parsing after it can give
FetchResponses ==
    {[kind |-> x, products |-> <<>>] :
        x \in {"error", "status", "notjson", "toplist", "nokey", "null"}}
        \cup {[kind |-> "ok", products |-> c] : c \in Catalogs}

NoFetch == [kind |-> "none", products |-> <<>>]

\* what requests.get(f"{INVENTORY_API_URL}/{local_id}") can give
LiveResponses ==
    {[kind |-> x, price |-> NoPrice] : x \in {"error", "status", "nofield"}}
        \cup {[kind |-> "price", price |-> p] : p \in Prices}

\* what requests.post(url, ...) can give
PostResponses == {[kind |-> x, price |-> NoPrice] : x \in {"error", "201", "201nokey", "other"}}

NoResp == [kind |-> "none", price |-> NoPrice]

Event(op, id, resp) == [op |-> op, id |-> id, resp |-> resp]

----------------------------------------------------------------------------
(* Pure helpers *)

\* a value bound to the column `price REAL`: integers and numeric text become reals
ToReal(p) == IF p.k \in {"int", "str"} THEN [k |-> "real", v |-> p.v] ELSE p

\* Python's `a != b` on JSON / SQLite values: numbers compare by value
PyNe(a, b) ==
    IF a.k \in {"int", "real"} /\ b.k \in {"int", "real"} THEN a.v # b.v ELSE a # b

StoredPrice_NoInject(pid, price) == price

\* lines 50-54: the price written for an item
StoredPrice(pid, price) == IF pid = Sentinel THEN InjectedPrice ELSE price

Row(item) ==
    [id |-> item.id, title |-> item.title, price |-> ToReal(StoredPrice(item.id, item.price))]

DropTable_Keep(t) == t

\* DROP TABLE IF EXISTS products
DropTable(t) == {}

RECURSIVE SortById(_)
\* the rows of a rowid table in the order a full scan visits them
SortById(s) ==
    IF s = {} THEN <<>>
    ELSE LET m == CHOOSE r \in s : \A q \in s : r.id <= q.id
         IN  <<m>> \o SortById(s \ {m})

\* SELECT id, price FROM products
SelectAll(t) == SortById({[id |-> r.id, price |-> r.price] : r \in t})

Min(a, b) == IF a <= b THEN a ELSE b

Scanned_All(data) == data

\* local_data[:5]
Scanned(data) == SubSeq(data, 1, Min(ScanLimit, Len(data)))

StoreMissing_Never(exists) == FALSE

\* not os.path.exists(DB_FILE)
StoreMissing(exists) == ~exists

Defect(row, live) ==
    [id |-> row.id, desc |-> <<row.id, row.price, live>>, expected |-> live, actual |-> row.price]

ScanStep_Equal(ds, row, resp) ==
    IF resp.kind = "price" /\ ~PyNe(row.price, resp.price)
    THEN Append(ds, Defect(row, resp.price))
    ELSE ds

\* lines 83-98: the defect list after one row has been checked
ScanStep(ds, row, resp) ==
    IF resp.kind = "price" /\ PyNe(row.price, resp.price)
    THEN Append(ds, Defect(row, resp.price))
    ELSE ds

DefectAt_Reversed(ds, n) == ds[Len(ds) + 1 - n]

\* for defect in defects_list
DefectAt(ds, n) == ds[n]

Store == [file |-> dbFile, hasTable |-> hasTable, rows |-> rows]

\* the table a run of the loader leaves for a well-formed list
LoadedRows(c) == {Row(c[n]) : n \in 1..Len(c)}

SeedCatalogs == {<<Item(1, NaturalPrice), Item(2, NaturalPrice)>>}

\* the store before the run: no file yet, or the table an earlier run left
PriorStores ==
    {[file |-> FALSE, hasTable |-> FALSE, rows |-> {}]}
        \cup {[file |-> TRUE, hasTable |-> TRUE, rows |-> LoadedRows(c)] : c \in SeedCatalogs}

----------------------------------------------------------------------------
(* Initial states *)

Init ==
    /\ entry \in {"main", "scan"}
    /\ JIRA_TOKEN \in BOOLEAN
    /\ store0 \in PriorStores
    /\ dbFile = store0.file
    /\ hasTable = store0.hasTable
    /\ rows = store0.rows
    /\ txn = {}
    /\ pc = IF entry = "main" THEN "setup_fetch" ELSE "scan_entry"
    /\ stage = IF entry = "main" THEN "setup" ELSE "scan"
    /\ exitStatus = -1
    /\ raised = ""
    /\ fetched = NoFetch
    /\ products = <<>>
    /\ i = 1
    /\ local_data = <<>>
    /\ j = 1
    /\ defects = <<>>
    /\ k = 1
    /\ trace = <<>>

----------------------------------------------------------------------------
(* setup_stale_database *)

\* lines 25-35: the list GET; anything but a dict with a 'products' key exits with status 1
SetupFetch ==
    /\ pc = "setup_fetch"
    /\ \E r \in FetchResponses :
        /\ fetched' = r
        /\ trace' = Append(trace, Event("GET_LIST", 0, NoResp))
        /\ IF r.kind \in {"ok", "null"}
           THEN /\ products' = r.products
                /\ pc' = "setup_drop"
                /\ UNCHANGED <<exitStatus, raised>>
           ELSE /\ products' = products
                /\ pc' = "exit"
                /\ exitStatus' = 1
                /\ raised' = "SystemExit"
    /\ UNCHANGED <<entry, JIRA_TOKEN, stage, dbFile, hasTable, rows, txn, i,
                   local_data, j, defects, k, store0>>

\* lines 37-40: connect (creates the file) and DROP TABLE IF EXISTS, committed at once
SetupDrop ==
    /\ pc = "setup_drop"
    /\ dbFile' = TRUE
    /\ hasTable' = FALSE
    /\ rows' = DropTable(rows)
    /\ trace' = Append(trace, Event("DROP", 0, NoResp))
    /\ pc' = "setup_create"
    /\ UNCHANGED <<entry, JIRA_TOKEN, raised, stage, exitStatus, txn, fetched, products, i,
                   local_data, j, defects, k, store0>>

\* lines 41-47: CREATE TABLE products, committed at once
SetupCreate ==
    /\ pc = "setup_create"
    /\ hasTable' = TRUE
    /\ txn' = rows    \* the connection sees the (empty) committed table
    /\ trace' = Append(trace, Event("CREATE", 0, NoResp))
    /\ i' = 1
    /\ pc' = "setup_insert"
    /\ UNCHANGED <<entry, JIRA_TOKEN, raised, stage, exitStatus, dbFile, rows, fetched, products,
                   local_data, j, defects, k, store0>>

\* lines 49-56: one iteration of the for loop. A products value that is not a
\* list, an item lacking a key and a repeated primary key each raise outside any
\* try: the process dies with status 1 and the open transaction is rolled back.
SetupInsert ==
    /\ pc = "setup_insert"
    /\ fetched.kind = "null" \/ i <= Len(products)
    /\ IF fetched.kind = "null"
          \/ products[i].missing # ""
          \/ \E r \in txn : r.id = products[i].id
       THEN /\ txn' = {}
            /\ pc' = "exit"
            /\ exitStatus' = 1
            /\ raised' = IF fetched.kind = "null" THEN "TypeError"
                          ELSE IF products[i].missing # "" THEN "KeyError"
                          ELSE "IntegrityError"
            /\ UNCHANGED <<i, trace>>
       ELSE /\ txn' = txn \cup {Row(products[i])}
            /\ i' = i + 1
            /\ trace' = Append(trace, Event("INSERT", products[i].id, NoResp))
            /\ UNCHANGED <<pc, exitStatus, raised>>
    /\ UNCHANGED <<entry, JIRA_TOKEN, stage, dbFile, hasTable, rows, fetched, products,
                   local_data, j, defects, k, store0>>

\* lines 58-60 and 153-154: commit, close, return to main, which calls the scanner
SetupCommit ==
    /\ pc = "setup_insert"
    /\ fetched.kind = "ok"
    /\ i > Len(products)
    /\ rows' = txn
    /\ txn' = {}
    /\ trace' = Append(trace, Event("COMMIT", 0, NoResp))
    /\ pc' = "scan_entry"
    /\ stage' = "scan"
    /\ UNCHANGED <<entry, JIRA_TOKEN, raised, exitStatus, dbFile, hasTable, fetched, products, i,
                   local_data, j, defects, k, store0>>

----------------------------------------------------------------------------
(* run_integrity_scan *)

\* lines 65-77: the missing-file guard, else connect and SELECT
ScanEntry ==
    /\ pc = "scan_entry"
    /\ IF StoreMissing(dbFile)
       THEN /\ defects' = <<>>
            /\ pc' = "scan_return"
            /\ UNCHANGED <<dbFile, local_data, j, exitStatus, raised>>
       ELSE /\ dbFile' = TRUE
            /\ IF hasTable
               THEN /\ local_data' = SelectAll(rows)
                    /\ j' = 1
                    /\ defects' = <<>>
                    /\ pc' = "scan_loop"
                    /\ UNCHANGED <<exitStatus, raised>>
               ELSE /\ pc' = "exit"
                    /\ exitStatus' = 1
                    /\ raised' = "OperationalError"
                    /\ UNCHANGED <<local_data, j, defects>>
    /\ UNCHANGED <<entry, JIRA_TOKEN, stage, hasTable, rows, txn, fetched, products, i,
                   k, trace, store0>>

\* lines 79-98: one iteration of the for loop; every failure is caught and logged
ScanRecord ==
    /\ pc = "scan_loop"
    /\ j <= Len(Scanned(local_data))
    /\ \E resp \in LiveResponses :
        /\ defects' = ScanStep(defects, Scanned(local_data)[j], resp)
        /\ trace' = Append(trace, Event("GET", Scanned(local_data)[j].id, resp))
    /\ j' = j + 1
    /\ UNCHANGED <<entry, JIRA_TOKEN, raised, pc, stage, exitStatus, dbFile, hasTable, rows, txn,
                   fetched, products, i, local_data, k, store0>>

\* line 100: the loop is over, conn.close()
ScanClose ==
    /\ pc = "scan_loop"
    /\ j > Len(Scanned(local_data))
    /\ pc' = "scan_return"
    /\ UNCHANGED <<entry, JIRA_TOKEN, raised, stage, exitStatus, dbFile, hasTable, rows, txn,
                   fetched, products, i, local_data, j, defects, k, trace, store0>>

\* lines 67, 101 and 154-155: return the list; main passes it to the logger
ScanReturn ==
    /\ pc = "scan_return"
    /\ IF entry = "main"
       THEN /\ pc' = "log_entry"
            /\ stage' = "log"
       ELSE /\ pc' = "returned"
            /\ stage' = stage
    /\ UNCHANGED <<entry, JIRA_TOKEN, raised, exitStatus, dbFile, hasTable, rows, txn,
                   fetched, products, i, local_data, j, defects, k, trace, store0>>

----------------------------------------------------------------------------
(* log_defects_to_jira *)

\* lines 106-116: the two early returns (then main ends, status 0), else start the loop
LogEntry ==
    /\ pc = "log_entry"
    /\ IF defects = <<>> \/ ~JIRA_TOKEN
       THEN /\ pc' = "done"
            /\ stage' = "end"
            /\ exitStatus' = 0
            /\ k' = k
       ELSE /\ pc' = "log_loop"
            /\ k' = 1
            /\ UNCHANGED <<stage, exitStatus>>
    /\ UNCHANGED <<entry, JIRA_TOKEN, raised, dbFile, hasTable, rows, txn, fetched, products, i,
                   local_data, j, defects, trace, store0>>

\* lines 118-146: one iteration. requests.post raising, and a 201 whose body has
\* no 'key', are not caught: the process dies with status 1.
LogPost ==
    /\ pc = "log_loop"
    /\ k <= Len(defects)
    /\ \E resp \in PostResponses :
        /\ IF resp.kind \in {"error", "201nokey"}
           THEN /\ pc' = "exit"
                /\ exitStatus' = 1
                /\ raised' = IF resp.kind = "error" THEN "RequestException" ELSE "KeyError"
                /\ k' = k
           ELSE /\ k' = k + 1
                /\ UNCHANGED <<pc, exitStatus, raised>>
    /\ trace' = Append(trace, Event("POST", DefectAt(defects, k).id, NoResp))
    /\ UNCHANGED <<entry, JIRA_TOKEN, stage, dbFile, hasTable, rows, txn, fetched,
                   products, i, local_data, j, defects, store0>>

\* lines 155-159: the loop is over; main prints PROCESS COMPLETE and ends, status 0
LogReturn ==
    /\ pc = "log_loop"
    /\ k > Len(defects)
    /\ pc' = "done"
    /\ stage' = "end"
    /\ exitStatus' = 0
    /\ UNCHANGED <<entry, JIRA_TOKEN, raised, dbFile, hasTable, rows, txn, fetched, products, i,
                   local_data, j, defects, k, trace, store0>>

----------------------------------------------------------------------------

Next ==
    \/ SetupFetch
    \/ SetupDrop
    \/ SetupCreate
    \/ SetupInsert
    \/ SetupCommit
    \/ ScanEntry
    \/ ScanRecord
    \/ ScanClose
    \/ ScanReturn
    \/ LogEntry
    \/ LogPost
    \/ LogReturn

Spec == Init /\ [][Next]_vars

----------------------------------------------------------------------------
(* Vocabulary of the properties *)

SeqIds(s) == [n \in 1..Len(s) |-> s[n].id]

GetEvents == SelectSeq(trace, LAMBDA e : e.op = "GET")

GetIds == SeqIds(GetEvents)

PostIds == SeqIds(SelectSeq(trace, LAMBDA e : e.op = "POST"))

DefectIds == SeqIds(defects)

\* setup_stale_database has committed and returned to main
LoaderDone == entry = "main" /\ stage # "setup"

\* run_integrity_scan has returned its list
ScanReturned ==
    \/ pc \in {"returned", "log_entry", "log_loop", "done"}
    \/ pc = "exit" /\ stage = "log"

\* log_defects_to_jira was called and is over (returned, or died)
LogOver == stage \in {"log", "end"} /\ pc \in {"done", "exit"}

ProductIds == {products[n].id : n \in 1..Len(products)}

\* the price the catalog list supplied for an id
CatalogPrice(id) == products[CHOOSE n \in 1..Len(products) : products[n].id = id].price

\* the price run_integrity_scan read from the table for an id
LocalPrice(id) == local_data[CHOOSE n \in 1..Len(local_data) : local_data[n].id = id].price

IsNumber(p) == p.k \in {"int", "real"}

IsPrefix(s, t) == Len(s) <= Len(t) /\ \A n \in 1..Len(s) : s[n] = t[n]

\* every per-record GET answered 200 with the price the catalog list gave for that id
LiveAsLoaded ==
    \A n \in 1..Len(trace) :
        trace[n].op = "GET"
            => trace[n].resp = [kind |-> "price", price |-> CatalogPrice(trace[n].id)]

SentinelScanned == \E n \in 1..Len(trace) : trace[n].op = "GET" /\ trace[n].id = Sentinel

OnlySentinelDefect ==
    /\ Len(defects) = 1
    /\ defects[1].id = Sentinel
    /\ defects[1].expected = CatalogPrice(Sentinel)
    /\ defects[1].actual = InjectedPrice

----------------------------------------------------------------------------
(* C1 *)

\* C1 as stated: whenever the sentinel id 1 is among the scanned rows and every
\* per-record GET returns the price the loader was given, the scan after a
\* successful load returns exactly one defect, for id 1, with expected = the live
\* price and actual = 999.99. (Refuted: a catalog pricing id 1 at 999.99 yields no
\* defect, and a price that the REAL column converts yields one for another id.)
C1_AsStated ==
    (entry = "main" /\ ScanReturned /\ LoaderDone /\ SentinelScanned /\ LiveAsLoaded)
        => OnlySentinelDefect

\* C1 amended: the same conclusion, provided the catalog's price for id 1 is not
\* itself 999.99 and every other scanned price is a JSON number.
C1_Amended ==
    (/\ entry = "main" /\ ScanReturned /\ LoaderDone /\ SentinelScanned /\ LiveAsLoaded
     /\ PyNe(InjectedPrice, CatalogPrice(Sentinel))
     /\ \A n \in 1..Len(trace) :
            (trace[n].op = "GET" /\ trace[n].id # Sentinel)
                => IsNumber(CatalogPrice(trace[n].id)))
        => OnlySentinelDefect

\* a scan of several rows, the sentinel among them, that found the one injected defect
C1_Witness ==
    /\ entry = "main" /\ LoaderDone /\ ScanReturned /\ SentinelScanned /\ LiveAsLoaded
    /\ Len(GetIds) = ScanLimit
    /\ OnlySentinelDefect

----------------------------------------------------------------------------
(* C2 *)

\* C2 as stated: after every successful load exactly one row, the row with id 1,
\* holds a price different from the supplied one; every other row holds the
\* supplied price. (Refuted: a catalog without id 1, or pricing it at 999.99,
\* leaves no differing row.)
C2_AsStated ==
    (entry = "main" /\ LoaderDone)
        => /\ \E r \in rows : r.id = Sentinel
           /\ \A r \in rows : PyNe(r.price, CatalogPrice(r.id)) <=> r.id = Sentinel

\* C2 amended: after every successful load the table has a row for id 1 exactly
\* when the catalog lists id 1, that row holds 999.99, and every other row holds
\* the supplied price as the REAL column stores it (an equal number when the
\* supplied price is a number). So at most one row differs from its supplied
\* price, the row with id 1, and it differs exactly when the supplied price for
\* id 1 is not 999.99.
C2_Amended ==
    (entry = "main" /\ LoaderDone)
        => /\ (\E r \in rows : r.id = Sentinel) <=> Sentinel \in ProductIds
           /\ \A r \in rows :
                IF r.id = Sentinel
                THEN /\ r.price = InjectedPrice
                     /\ PyNe(r.price, CatalogPrice(r.id))
                            <=> CatalogPrice(r.id) # InjectedPrice
                ELSE /\ r.price.k \in {"real"}
                     /\ r.price.v = CatalogPrice(r.id).v
                     /\ IsNumber(CatalogPrice(r.id)) => ~PyNe(r.price, CatalogPrice(r.id))

\* a loaded table of two rows in which only the row of id 1 differs from the catalog
C2_Witness ==
    /\ entry = "main" /\ LoaderDone
    /\ Cardinality(rows) = 2
    /\ \A r \in rows : PyNe(r.price, CatalogPrice(r.id)) <=> r.id = Sentinel
    /\ \E r \in rows : r.id = Sentinel

----------------------------------------------------------------------------
(* C3 *)

\* C3: after a successful load the table is a function of the fetched list alone,
\* whatever it held before: one row per fetched product and no other row, no id
\* twice, and a load over the table an earlier load of the same list left gives
\* that same table again.
C3_ReplaceIdempotent ==
    (entry = "main" /\ LoaderDone)
        => /\ dbFile /\ hasTable
           /\ Cardinality(rows) = Len(products)
           /\ \A r \in rows : \E n \in 1..Len(products) :
                /\ products[n].id = r.id
                /\ products[n].title = r.title
                /\ r.price = ToReal(IF r.id = Sentinel THEN InjectedPrice ELSE products[n].price)
           /\ \A r, q \in rows : r.id = q.id => r = q
           /\ (store0.hasTable /\ store0.rows = LoadedRows(products)) => rows = store0.rows

\* a second load of the list that produced the table already there
C3_Witness ==
    /\ entry = "main" /\ LoaderDone
    /\ store0.hasTable /\ store0.rows = LoadedRows(products)
    /\ rows = store0.rows
    /\ Len(products) = 2

----------------------------------------------------------------------------
(* C4 *)

\* the list GET failed, gave a non-success status, or JSON of another shape
BadFetch ==
    \/ fetched.kind \in {"error", "status", "notjson", "toplist", "nokey", "null"}
    \/ fetched.kind = "ok" /\ \E n \in 1..Len(products) : products[n].missing # ""

\* C4 as stated: when the catalog fetch errors, returns a non-success status or
\* gives JSON of an unexpected shape, the process ends with a non-zero status, the
\* products table is exactly as it was before the run, and no per-record GET and
\* no tracker POST was issued. (Refuted: {"products": null}, or an item lacking a
\* key, is only met after DROP TABLE and CREATE TABLE have been committed.)
C4_AsStated ==
    (entry = "main" /\ BadFetch /\ pc = "exit")
        => /\ exitStatus # 0
           /\ store0.hasTable => hasTable
           /\ rows = store0.rows
           /\ \A n \in 1..Len(trace) : trace[n].op \notin {"GET", "POST"}

----------------------------------------------------------------------------
(* C5 *)

\* C5 as stated: with a token configured, a call of log_defects_to_jira with N
\* defects issues exactly N POSTs, one per defect in list order, whatever status
\* each POST returns. Runs in which a POST returned no status at all (the request
\* raised) are left aside. (Refuted: a 201 whose body has no 'key' ends the
\* process before the remaining defects are posted.)
C5_AsStated ==
    (entry = "main" /\ JIRA_TOKEN /\ LogOver /\ raised # "RequestException")
        => PostIds = DefectIds

----------------------------------------------------------------------------
(* C6 *)

\* C6 as stated: once the loader has succeeded, no scanner or logger error changes
\* the outcome: the run never ends abnormally, and when it ends every defect has
\* been submitted. (Refuted: log_defects_to_jira has no try around requests.post
\* and response.json()['key'].)
C6_AsStated ==
    (entry = "main" /\ LoaderDone)
        => /\ pc # "exit" /\ exitStatus \in {-1, 0} /\ raised = ""
           /\ (pc = "done" /\ JIRA_TOKEN) => PostIds = DefectIds

----------------------------------------------------------------------------
(* C7 *)

FailedGet(e) == e.resp.kind \in {"error", "status", "nofield"}

DifferingGet(e) == e.resp.kind = "price" /\ PyNe(LocalPrice(e.id), e.resp.price)

\* C7: a failed per-record GET never raises and never stops the scan: every row of
\* the scanned subset is queried, in order, and the returned list holds exactly
\* one defect for each GET that gave a price differing from the stored one.
C7_ScanSurvivesFailures ==
    /\ stage = "scan" => (pc # "exit" /\ raised = "")
    /\ ScanReturned =>
        /\ GetIds = SeqIds(Scanned(local_data))
        /\ LET hits == SelectSeq(GetEvents, DifferingGet)
           IN  /\ Len(defects) = Len(hits)
               /\ \A n \in 1..Len(hits) :
                    /\ defects[n].id = hits[n].id
                    /\ defects[n].expected = hits[n].resp.price
                    /\ defects[n].actual = LocalPrice(hits[n].id)

\* a scan in which one record failed and a later record was still queried and reported
C7_Witness ==
    /\ ScanReturned
    /\ \E m, n \in 1..Len(GetEvents) :
        /\ m < n
        /\ FailedGet(GetEvents[m])
        /\ DifferingGet(GetEvents[n])
        /\ \E d \in 1..Len(defects) : defects[d].id = GetEvents[n].id

----------------------------------------------------------------------------
(* C8 *)

\* C8: called when the store file does not exist, run_integrity_scan returns an
\* empty list without raising, issues no GET and does not create the file.
C8_MissingStore ==
    (entry = "scan" /\ ~store0.file)
        => /\ pc # "exit" /\ raised = ""
           /\ ~dbFile
           /\ trace = <<>>
           /\ pc = "returned" => defects = <<>>

\* run_integrity_scan has returned from a call made without a store file
C8_Witness == entry = "scan" /\ ~store0.file /\ pc = "returned"

----------------------------------------------------------------------------
(* C9 *)

\* 1 for the list GET and the table writes, 2 for a per-record GET, 3 for a POST
StageOf(op) == IF op = "GET" THEN 2 ELSE IF op = "POST" THEN 3 ELSE 1

\* list GET and table writes, then per-record GETs, then POSTs: no request or
\* write is followed by one of an earlier stage
StagesInOrder ==
    \A n \in 1..(Len(trace) - 1) : StageOf(trace[n].op) <= StageOf(trace[n + 1].op)

\* C9 as stated: in every run the list GET and the table writes precede the first
\* per-record GET, the per-record GETs precede the first POST, and the ids named
\* in the POSTs are exactly the ids of the scanner's defect list, in order.
\* (Refuted: without JIRA_TOKEN the run completes with no POST at all.)
C9_AsStated ==
    entry = "main" => (StagesInOrder /\ (pc = "done" => PostIds = DefectIds))

\* C9 amended: the three stages happen in that order; the ids named in the POSTs
\* are at every moment a prefix of the ids of the scanner's defect list, and at
\* normal completion they are the whole list when JIRA_TOKEN is set and none when
\* it is not.
C9_Amended ==
    entry = "main"
        => /\ StagesInOrder
           /\ IsPrefix(PostIds, DefectIds)
           /\ pc = "done" => PostIds = (IF JIRA_TOKEN THEN DefectIds ELSE <<>>)

\* a completed run that posted a defect list of several entries
C9_Witness ==
    entry = "main" /\ pc = "done" /\ JIRA_TOKEN /\ Len(defects) >= 2 /\ PostIds = DefectIds

----------------------------------------------------------------------------
(* C10 *)

\* C10 as stated: the per-record GETs are for the first min(5, n) ids in the order
\* of the fetched list, one GET each. (Refuted: the table is read back in id
\* order, so the list [2, 1] is queried as 1, 2.)
C10_AsStated ==
    (entry = "main" /\ ScanReturned /\ LoaderDone)
        => GetIds = SeqIds(SubSeq(products, 1, Min(ScanLimit, Len(products))))

\* C10 amended: the per-record GETs are for the min(5, n) smallest stored ids in
\* ascending order, one GET each, and never more than five.
C10_Amended ==
    (entry = "main" /\ ScanReturned /\ LoaderDone)
        => LET got == GetIds
               ids == ProductIds
           IN  /\ Len(got) = Min(ScanLimit, Len(products))
               /\ \A n \in 1..Len(got) :
                    /\ got[n] \in ids
                    /\ Cardinality({id \in ids : id < got[n]}) = n - 1

\* a list longer than five whose first fetched id is not among the five queried
C10_Witness ==
    /\ entry = "main" /\ LoaderDone /\ ScanReturned
    /\ Len(products) > ScanLimit
    /\ Len(GetIds) = ScanLimit
    /\ \A n \in 1..Len(GetIds) : GetIds[n] # products[1].id

====
